---- MODULE Spec2Model ----
(***************************************************************************)
(* EV3_EcoEnergy, app "dispositivos": the organization-scoped Django admin *)
(* (admin.py) over the entity store of models.py.                          *)
(*                                                                         *)
(* State: the Device, Alert and Measurement tables (the columns the admin  *)
(* reads or writes), the wall clock, and the outcome of the last request,   *)
(* and the requests in flight when requests run concurrently.              *)
(* One action per admin request: the changelist, the change form of a      *)
(* Device, the bulk actions, and a call of has_organization_access.    *)
(***************************************************************************)
EXTENDS Integers, FiniteSets, Sequences, TLC

(* ---------------------------- bounds ----------------------------------- *)
NumDevices == 2
NumAlerts == 1
NumMeasurements == 1
MaxTime == 1
ReportExtra == 1

(* ------------------------ program constants ---------------------------- *)
\* admin.py:205   if queryset.count() > 10
MaxReportDevices == 10

NULL == "NULL"
\* a DateTimeField holding NULL (deleted_at, null=True)
NullTime == -1
\* no affected-row count was reported
NoCount == -1

Organizations == {"A", "B"}
STATES == {"ACTIVE", "INACTIVE"}
Roles == {"ADMIN", "OPERATOR", "VIEWER", "MANAGER"}
Kinds == {"Device", "Measurement", "Alert"}

VARIABLES device, alert, measurement, now, last, inflight

vars == <<device, alert, measurement, now, last, inflight>>

(* ----------------------------- principals ------------------------------ *)
\* request.user: the superuser flag and the optional UserProfile
\* (organization is nullable, role defaults to VIEWER).
NoProfileUsers ==
    [is_superuser : BOOLEAN, has_profile : {FALSE},
     organization : {NULL}, role : {"NONE"}]

ProfileUsers ==
    [is_superuser : BOOLEAN, has_profile : {TRUE},
     organization : Organizations \cup {NULL}, role : Roles]

AllUsers == NoProfileUsers \cup ProfileUsers

User(su, hp, org, role) ==
    [is_superuser |-> su, has_profile |-> hp, organization |-> org, role |-> role]

\* the principals that issue requests in the model
Actors ==
    { User(TRUE, FALSE, NULL, "NONE"),
      User(FALSE, FALSE, NULL, "NONE"),
      User(FALSE, TRUE, "A", "VIEWER"),
      User(FALSE, TRUE, "B", "ADMIN") }

(* ------------------------------ role policy ---------------------------- *)
has_organization_access(user, organization) ==
    IF user.is_superuser THEN TRUE
    ELSE user.organization = organization

can_edit_devices(user) == user.role \in {"ADMIN", "OPERATOR", "MANAGER"}

can_view_all_organizations(user) == user.is_superuser \/ user.role = "ADMIN"

(* ----------------------------- scoping --------------------------------- *)
DeviceIds == DOMAIN device
AlertIds == DOMAIN alert
MeasurementIds == DOMAIN measurement

\* Model._default_manager: every row of the table (no manager of models.py
\* filters on deleted_at)
BaseQueryset(kind) ==
    CASE kind = "Device" -> DeviceIds
      [] kind = "Measurement" -> MeasurementIds
      [] kind = "Alert" -> AlertIds

\* hasattr(self.model, 'organization') / hasattr(self.model, 'device')
HasOrganizationField(kind) == kind = "Device"
HasDeviceField(kind) == kind \in {"Measurement", "Alert"}

\* record.device (ForeignKey of Measurement and Alert)
DeviceOf(kind, id) ==
    IF kind = "Measurement" THEN measurement[id].device ELSE alert[id].device

\* variant: a principal without organization falls through to the full set
get_queryset_fail_open(user, kind) ==
    LET qs == BaseQueryset(kind) IN
    IF ~user.is_superuser /\ user.has_profile /\ user.organization # NULL
    THEN IF HasOrganizationField(kind)
         THEN {id \in qs : device[id].organization = user.organization}
         ELSE {id \in qs : device[DeviceOf(kind, id)].organization = user.organization}
    ELSE qs

\* variant: the ADMIN role is honoured as a cross-organization grant
get_queryset_role_grant(user, kind) ==
    LET qs == BaseQueryset(kind) IN
    IF ~(user.is_superuser \/ user.role = "ADMIN")
    THEN IF user.has_profile /\ user.organization # NULL
         THEN IF HasOrganizationField(kind)
              THEN {id \in qs : device[id].organization = user.organization}
              ELSE {id \in qs : device[DeviceOf(kind, id)].organization = user.organization}
         ELSE {}
    ELSE qs

\* variant: the branch for models with a device field does not filter
get_queryset_indirect_unfiltered(user, kind) ==
    LET qs == BaseQueryset(kind) IN
    IF ~user.is_superuser
    THEN IF user.has_profile /\ user.organization # NULL
         THEN IF HasOrganizationField(kind)
              THEN {id \in qs : device[id].organization = user.organization}
              ELSE qs
         ELSE {}
    ELSE qs

get_queryset(user, kind) ==
    LET qs == BaseQueryset(kind) IN
    IF ~user.is_superuser
    THEN IF user.has_profile /\ user.organization # NULL
         THEN LET user_org == user.organization IN
              IF HasOrganizationField(kind)
              THEN {id \in qs : device[id].organization = user_org}
              ELSE IF HasDeviceField(kind)
                   THEN {id \in qs : device[DeviceOf(kind, id)].organization = user_org}
                   ELSE {}
         ELSE {}
    ELSE qs

\* the queryset an action receives: the admin's queryset filtered to the
\* ids ticked in the changelist
\* variant: the ticked ids are looked up in the whole table
ActionQueryset_unscoped(user, kind, selected) == BaseQueryset(kind) \cap selected

ActionQueryset(user, kind, selected) == get_queryset(user, kind) \cap selected

(* ------------------------------ requests ------------------------------- *)
\* the outcome of a request, as message_user reports it: the action, who
\* asked, the ids ticked, the queryset the action received, the count and
\* the level of the message.  `repeated`: the request before it was the
\* same device action by the same user on the same ids.
Result(action, user, kind, selected, qs, count, level) ==
    [action |-> action, user |-> user, kind |-> kind, organization |-> NULL,
     selected |-> selected, queryset |-> qs, count |-> count, level |-> level,
     granted |-> FALSE, repeated |-> FALSE]

Repeats(action, user, selected) ==
    last.action = action /\ last.user = user /\ last.selected = selected

\* QuerySet.update(field=value): one UPDATE statement over the rows of the
\* queryset; no save() is called, so auto_now does not fire
\* variant: the rows are saved one by one and the loop stops after the first
UpdateState_first_row_only(qs, value) ==
    [d \in DeviceIds |->
        IF d \in qs /\ \A e \in qs : d <= e
        THEN [device[d] EXCEPT !.state = value] ELSE device[d]]

UpdateState(qs, value) ==
    [d \in DeviceIds |->
        IF d \in qs THEN [device[d] EXCEPT !.state = value] ELSE device[d]]

UpdateResolved(qs, value) ==
    [a \in AlertIds |->
        IF a \in qs THEN [alert[a] EXCEPT !.is_resolved = value] ELSE alert[a]]

changelist_view(user, kind) ==
    /\ last' = Result("changelist_view", user, kind, {}, get_queryset(user, kind),
                      NoCount, "INFO")
    /\ UNCHANGED <<device, alert, measurement, now>>

\* variant: the count is the number of rows whose state really changed
mark_as_active_changed_rows(user, selected) ==
    LET queryset == ActionQueryset(user, "Device", selected)
        updated == Cardinality({d \in queryset : device[d].state # "ACTIVE"}) IN
    /\ selected # {}
    /\ device' = UpdateState(queryset, "ACTIVE")
    /\ last' = [Result("mark_as_active", user, "Device", selected, queryset,
                       updated, "INFO")
                EXCEPT !.repeated = Repeats("mark_as_active", user, selected)]
    /\ UNCHANGED <<alert, measurement, now>>

mark_as_active(user, selected) ==
    LET queryset == ActionQueryset(user, "Device", selected)
        updated == Cardinality(queryset) IN
    /\ selected # {}
    /\ device' = UpdateState(queryset, "ACTIVE")
    /\ last' = [Result("mark_as_active", user, "Device", selected, queryset,
                       updated, "INFO")
                EXCEPT !.repeated = Repeats("mark_as_active", user, selected)]
    /\ UNCHANGED <<alert, measurement, now>>

mark_as_inactive(user, selected) ==
    LET queryset == ActionQueryset(user, "Device", selected)
        updated == Cardinality(queryset) IN
    /\ selected # {}
    /\ device' = UpdateState(queryset, "INACTIVE")
    /\ last' = [Result("mark_as_inactive", user, "Device", selected, queryset,
                       updated, "INFO")
                EXCEPT !.repeated = Repeats("mark_as_inactive", user, selected)]
    /\ UNCHANGED <<alert, measurement, now>>

mark_as_resolved(user, selected) ==
    LET queryset == ActionQueryset(user, "Alert", selected)
        updated == Cardinality(queryset) IN
    /\ selected # {}
    /\ alert' = UpdateResolved(queryset, TRUE)
    /\ last' = Result("mark_as_resolved", user, "Alert", selected, queryset,
                      updated, "INFO")
    /\ UNCHANGED <<device, measurement, now>>

mark_as_unresolved(user, selected) ==
    LET queryset == ActionQueryset(user, "Alert", selected)
        updated == Cardinality(queryset) IN
    /\ selected # {}
    /\ alert' = UpdateResolved(queryset, FALSE)
    /\ last' = Result("mark_as_unresolved", user, "Alert", selected, queryset,
                      updated, "INFO")
    /\ UNCHANGED <<device, measurement, now>>

\* variant: the cap is off by one (>= instead of >)
generate_usage_report_off_by_one(user, selected) ==
    LET queryset == ActionQueryset(user, "Device", selected) IN
    /\ selected # {}
    /\ last' = IF Cardinality(queryset) >= MaxReportDevices
               THEN Result("generate_usage_report", user, "Device", selected,
                           queryset, NoCount, "WARNING")
               ELSE Result("generate_usage_report", user, "Device", selected,
                           queryset, Cardinality(queryset), "INFO")
    /\ UNCHANGED <<device, alert, measurement, now>>

generate_usage_report(user, selected) ==
    LET queryset == ActionQueryset(user, "Device", selected) IN
    /\ selected # {}
    /\ last' = IF Cardinality(queryset) > MaxReportDevices
               THEN Result("generate_usage_report", user, "Device", selected,
                           queryset, NoCount, "WARNING")
               ELSE Result("generate_usage_report", user, "Device", selected,
                           queryset, Cardinality(queryset), "INFO")
    /\ UNCHANGED <<device, alert, measurement, now>>

\* the change form of a Device, posted with another owner (fieldsets:
\* organization is editable) and the other fields as they are: the object
\* is looked up in get_queryset and saved with Model.save(), which sets
\* updated_at (auto_now)
change_device(user, d, organization) ==
    /\ d \in get_queryset(user, "Device")
    /\ device' = [device EXCEPT ![d] =
          [@ EXCEPT !.organization = organization, !.updated_at = now]]
    /\ last' = Result("change_device", user, "Device", {d}, {d}, NoCount, "INFO")
    /\ UNCHANGED <<alert, measurement, now>>

\* a caller asks the profile of `user` whether it may access `organization`
organization_access(user, organization) ==
    /\ user.has_profile
    /\ last' = [Result("has_organization_access", user, "Organization", {}, {},
                       NoCount, "INFO")
                EXCEPT !.organization = organization,
                       !.granted = has_organization_access(user, organization)]
    /\ UNCHANGED <<device, alert, measurement, now>>

\* the wall clock advances between requests
Tick ==
    /\ now < MaxTime
    /\ now' = now + 1
    /\ UNCHANGED <<device, alert, measurement, last>>

(* ------------------------------ the store ------------------------------ *)
NoRequest ==
    Result("none", User(TRUE, FALSE, NULL, "NONE"), "Device", {}, {}, NoCount, "INFO")

\* rows as the models create them: state ACTIVE, is_resolved False,
\* created_at = updated_at = the creation time; `deleted` are the ids whose
\* deleted_at has been set
InitStore(owner, deleted, nDevices) ==
    /\ device = [d \in 1..nDevices |->
          [organization |-> owner[d], state |-> "ACTIVE",
           created_at |-> 0, updated_at |-> 0,
           deleted_at |-> IF d \in deleted THEN 0 ELSE NullTime]]
    /\ alert = [a \in 1..NumAlerts |->
          [device |-> nDevices - ((a - 1) % nDevices), is_resolved |-> FALSE,
           created_at |-> 0, updated_at |-> 0,
           deleted_at |-> IF a \in deleted THEN 0 ELSE NullTime]]
    /\ measurement = [m \in 1..NumMeasurements |->
          [device |-> ((m - 1) % nDevices) + 1,
           created_at |-> 0, updated_at |-> 0,
           deleted_at |-> IF m \in deleted THEN 0 ELSE NullTime]]

AlternatingOwner == [d \in 1..NumDevices |-> IF d % 2 = 1 THEN "A" ELSE "B"]

\* the two requests that may be in flight at once
Requests == {"r1", "r2"}

\* a request slot nobody uses
Idle ==
    [pc |-> "idle", action |-> "none", user |-> User(TRUE, FALSE, NULL, "NONE"),
     selected |-> {}, count |-> NoCount]

Init ==
    /\ now = 0
    /\ \E deleted \in {{}, {1}} : InitStore(AlternatingOwner, deleted, NumDevices)
    /\ last = NoRequest
    /\ inflight = [r \in Requests |-> Idle]

\* one request at a time: each handler runs from its first line to its last
Next ==
    \/ \E user \in Actors, kind \in Kinds :
          changelist_view(user, kind) /\ UNCHANGED inflight
    \/ \E user \in Actors, selected \in SUBSET DeviceIds :
          mark_as_active(user, selected) /\ UNCHANGED inflight
    \/ \E user \in Actors, selected \in SUBSET DeviceIds :
          mark_as_inactive(user, selected) /\ UNCHANGED inflight
    \/ \E user \in Actors, selected \in SUBSET AlertIds :
          mark_as_resolved(user, selected) /\ UNCHANGED inflight
    \/ \E user \in Actors, selected \in SUBSET AlertIds :
          mark_as_unresolved(user, selected) /\ UNCHANGED inflight
    \/ \E user \in Actors, d \in DeviceIds, organization \in Organizations :
          change_device(user, d, organization) /\ UNCHANGED inflight

Spec == Init /\ [][Next]_vars

\* the same requests with the clock advancing between them
NextClock == Next \/ (Tick /\ UNCHANGED inflight)

SpecClock == Init /\ [][NextClock]_vars

\* the profile methods asked of every profile about every organization
NextAccess ==
    \E user \in ProfileUsers, organization \in Organizations \cup {NULL} :
        organization_access(user, organization) /\ UNCHANGED inflight

SpecAccess == Init /\ [][NextAccess]_vars

\* a store with more Devices than one usage report accepts: organization A
\* owns MaxReportDevices of them, organization B the rest
ReportDevices == MaxReportDevices + ReportExtra

ReportOwner == [d \in 1..ReportDevices |-> IF d <= MaxReportDevices THEN "A" ELSE "B"]

\* the selections of the report requests: the runs of consecutive ids
Runs == {lo..hi : lo \in DeviceIds, hi \in DeviceIds}

InitReport ==
    /\ now = 0
    /\ InitStore(ReportOwner, {}, ReportDevices)
    /\ last = NoRequest
    /\ inflight = [r \in Requests |-> Idle]

NextReport ==
    \E user \in Actors, selected \in Runs :
        generate_usage_report(user, selected) /\ UNCHANGED inflight

SpecReport == InitReport /\ [][NextReport]_vars

(* ======================================================================= *)
(*                               properties                                *)
(* ======================================================================= *)
Unscoped(user) == ~user.is_superuser /\ (~user.has_profile \/ user.organization = NULL)

Scoped(user) == ~user.is_superuser /\ user.has_profile /\ user.organization # NULL

DeviceActions == {"mark_as_active", "mark_as_inactive"}
AlertActions == {"mark_as_resolved", "mark_as_unresolved"}
BulkActions == DeviceActions \cup AlertActions

(* ------------------------- concurrent requests ------------------------- *)
\* the table a bulk action belongs to and the value its update writes
KindOf(action) == IF action \in DeviceActions THEN "Device" ELSE "Alert"

\* a bulk action request arrives: the admin builds the queryset of the
\* ticked ids (lazy: no row is read yet) and is about to call the action
receive(r, user, action, selected) ==
    /\ inflight[r].pc = "idle"
    /\ selected # {}
    /\ selected \subseteq BaseQueryset(KindOf(action))
    /\ inflight' = [inflight EXCEPT ![r] =
          [pc |-> "received", action |-> action, user |-> user,
           selected |-> selected, count |-> NoCount]]
    /\ UNCHANGED <<device, alert, measurement, now, last>>

\* the action runs: queryset.update() is one UPDATE statement of the store,
\* filtered by ids and scope as the rows are when it executes, and returns
\* the count that message_user reports
execute(r) ==
    LET q == inflight[r] IN
    /\ q.pc = "received"
    /\ CASE q.action = "mark_as_active" -> mark_as_active(q.user, q.selected)
         [] q.action = "mark_as_inactive" -> mark_as_inactive(q.user, q.selected)
         [] q.action = "mark_as_resolved" -> mark_as_resolved(q.user, q.selected)
         [] q.action = "mark_as_unresolved" -> mark_as_unresolved(q.user, q.selected)
    /\ inflight' = [inflight EXCEPT ![r] = [q EXCEPT !.pc = "done", !.count = last'.count]]

\* two requests in flight, their steps interleaved
NextConcurrent ==
    \/ \E r \in Requests, user \in Actors, action \in DeviceActions,
          selected \in SUBSET DeviceIds : receive(r, user, action, selected)
    \/ \E r \in Requests, user \in Actors, action \in AlertActions,
          selected \in SUBSET AlertIds : receive(r, user, action, selected)
    \/ \E r \in Requests : execute(r)

SpecConcurrent == Init /\ [][NextConcurrent]_vars

\* C1: a principal that is not a superuser and has no profile, or a profile
\* without organization, gets the empty queryset for Device, Measurement and
\* Alert in every state of the store, and so does every request it issues.
C1_FailClosed ==
    /\ \A user \in AllUsers, kind \in Kinds :
          Unscoped(user) => get_queryset(user, kind) = {}
    /\ Unscoped(last.user) => last.queryset = {}

\* a changelist asked by a user without profile over a non-empty table
C1_Witness ==
    /\ last.action = "changelist_view"
    /\ ~last.user.is_superuser /\ ~last.user.has_profile
    /\ BaseQueryset(last.kind) # {}
    /\ last.queryset = {}

\* C2: whatever ids a non-superuser of organization A ticks, its bulk actions
\* leave the state of every Device of another organization and the
\* is_resolved of every Alert of such a Device as they were.
C2_OutOfScopeUntouched ==
    [][(last'.action \in BulkActions /\ Scoped(last'.user)) =>
          /\ \A d \in DeviceIds :
                device[d].organization # last'.user.organization
                   => device'[d].state = device[d].state
          /\ \A a \in AlertIds :
                device[alert[a].device].organization # last'.user.organization
                   => alert'[a].is_resolved = alert[a].is_resolved]_vars

\* mark_as_inactive by a user of one organization who ticked a Device of
\* another: that Device is still ACTIVE
C2_Witness ==
    /\ last.action = "mark_as_inactive"
    /\ Scoped(last.user)
    /\ last.count > 0
    /\ \E d \in last.selected :
          /\ device[d].organization # last.user.organization
          /\ device[d].state = "ACTIVE"

\* C3: a principal that may not edit devices (role VIEWER, or no profile)
\* and runs mark_as_active or mark_as_inactive on Devices of its own
\* queryset is refused with ActionDenied, and no Device state changes.
C3_RoleGate ==
    [][(/\ last'.action \in DeviceActions
        /\ ~last'.user.is_superuser
        /\ ~can_edit_devices(last'.user)
        /\ last'.selected \subseteq get_queryset(last'.user, "Device")) =>
          /\ last'.level = "ActionDenied"
          /\ \A d \in DeviceIds : device'[d].state = device[d].state]_vars

\* C4: has_organization_access is true iff the user is a superuser or the
\* profile's organization is not null and equals the argument.
C4_AccessIff ==
    last.action = "has_organization_access" =>
        (last.granted <=>
            \/ last.user.is_superuser
            \/ /\ last.user.organization # NULL
               /\ last.user.organization = last.organization)

\* deleted_at of a row
DeletedAt(kind, id) ==
    CASE kind = "Device" -> device[id].deleted_at
      [] kind = "Measurement" -> measurement[id].deleted_at
      [] kind = "Alert" -> alert[id].deleted_at

\* C5: a row whose deleted_at is set is in nobody's queryset, superuser
\* included, and in no bulk action's queryset (the rows an action changes
\* and counts).
C5_SoftDeleteExcluded ==
    /\ \A user \in AllUsers, kind \in Kinds :
          \A id \in get_queryset(user, kind) : DeletedAt(kind, id) = NullTime
    /\ last.action \in BulkActions =>
          \A id \in last.queryset : DeletedAt(last.kind, id) = NullTime

\* C6: a Measurement or Alert is in a principal's queryset iff its Device is
\* in that principal's Device queryset; for a non-superuser of organization
\* A, iff the Device's organization is A.
C6_IndirectScoping ==
    \A user \in AllUsers, kind \in {"Measurement", "Alert"} :
        \A id \in BaseQueryset(kind) :
            /\ id \in get_queryset(user, kind)
                  <=> DeviceOf(kind, id) \in get_queryset(user, "Device")
            /\ Scoped(user) =>
                  (id \in get_queryset(user, kind)
                      <=> device[DeviceOf(kind, id)].organization = user.organization)

\* a Device was given to another organization than it started with, and its
\* Alert is now in the queryset of a user of the new owner
C6_Witness ==
    /\ last.action = "change_device"
    /\ \E a \in AlertIds, user \in Actors :
          /\ alert[a].device \in last.selected
          /\ device[alert[a].device].organization # AlternatingOwner[alert[a].device]
          /\ Scoped(user)
          /\ user.organization = device[alert[a].device].organization
          /\ a \in get_queryset(user, "Alert")

\* C7: generate_usage_report over a queryset of more than 10 Devices only
\* warns, reports nothing and changes no row; over 10 or fewer it reports
\* the size of the queryset, which is never cut to 10.
C7_ReportCap ==
    [][last'.action = "generate_usage_report" =>
          LET n == Cardinality(last'.selected \cap get_queryset(last'.user, "Device")) IN
          /\ UNCHANGED <<device, alert, measurement>>
          /\ last'.queryset = last'.selected \cap get_queryset(last'.user, "Device")
          /\ IF n > MaxReportDevices
             THEN last'.level = "WARNING" /\ last'.count = NoCount
             ELSE last'.level = "INFO" /\ last'.count = n]_vars

\* a report asked over 11 Devices was refused with a warning
C7_Witness ==
    /\ last.action = "generate_usage_report"
    /\ Cardinality(last.queryset) = MaxReportDevices + 1
    /\ last.level = "WARNING"
    /\ last.count = NoCount

\* C8: mark_as_active (mark_as_inactive) applied a second time in a row by
\* the same user to the same non-empty set of ids of its queryset leaves
\* every ticked Device as the first application left it and reports the same
\* count, which is not zero.
C8_Idempotent ==
    [][(/\ last'.action \in DeviceActions
        /\ last'.repeated
        /\ last'.selected \subseteq get_queryset(last'.user, "Device")) =>
          /\ \A d \in last'.selected : device'[d] = device[d]
          /\ last'.count = last.count
          /\ last'.count > 0]_vars

\* mark_as_active was applied twice in a row to ids of the user's queryset
C8_Witness ==
    /\ last.action = "mark_as_active"
    /\ last.repeated
    /\ last.selected # {}
    /\ last.selected \subseteq get_queryset(last.user, "Device")
    /\ last.count = Cardinality(last.selected)
    /\ \A d \in last.selected : device[d].state = "ACTIVE"

\* C9: can_view_all_organizations is true iff superuser or role ADMIN; yet a
\* non-superuser of organization A, whatever its role, sees exactly the rows
\* owned by A (directly or through the Device), and only the superuser flag
\* gives the whole table.
C9_RoleDoesNotWidenScope ==
    /\ \A user \in ProfileUsers :
          can_view_all_organizations(user)
              <=> (user.is_superuser \/ user.role = "ADMIN")
    /\ \A user \in AllUsers :
          /\ Scoped(user) =>
                /\ get_queryset(user, "Device") =
                      {d \in DeviceIds : device[d].organization = user.organization}
                /\ get_queryset(user, "Measurement") =
                      {m \in MeasurementIds :
                          device[measurement[m].device].organization = user.organization}
                /\ get_queryset(user, "Alert") =
                      {a \in AlertIds :
                          device[alert[a].device].organization = user.organization}
          /\ user.is_superuser =>
                \A kind \in Kinds : get_queryset(user, kind) = BaseQueryset(kind)

\* a non-superuser with role ADMIN listed a table and did not get all of it
C9_Witness ==
    /\ last.action = "changelist_view"
    /\ ~last.user.is_superuser
    /\ last.user.role = "ADMIN"
    /\ can_view_all_organizations(last.user)
    /\ last.queryset # BaseQueryset(last.kind)
    /\ last.queryset # {}

\* C10: a row changed by any operation, the bulk actions included, has
\* updated_at equal to the time of that operation, and updated_at >=
\* created_at always.
C10_UpdatedAtRefreshed ==
    [][/\ \A d \in DeviceIds :
             /\ device'[d] # device[d] => device'[d].updated_at = now
             /\ device'[d].updated_at >= device'[d].created_at
       /\ \A a \in AlertIds :
             /\ alert'[a] # alert[a] => alert'[a].updated_at = now
             /\ alert'[a].updated_at >= alert'[a].created_at]_vars

\* the value a bulk action writes
StateOf(action) == IF action = "mark_as_active" THEN "ACTIVE" ELSE "INACTIVE"
ResolvedOf(action) == action = "mark_as_resolved"

\* the rows request q matches: its ticked ids that are in its user's queryset
Matched(q) == q.selected \cap get_queryset(q.user, KindOf(q.action))

\* the step of request r that runs its update wrote every matched row, no
\* other row, and returned the number of matched rows
AppliedWhole(r) ==
    LET q == inflight[r] IN
    /\ inflight'[r].count = Cardinality(Matched(q))
    /\ \A d \in DeviceIds :
          device'[d] = IF q.action \in DeviceActions /\ d \in Matched(q)
                       THEN [device[d] EXCEPT !.state = StateOf(q.action)]
                       ELSE device[d]
    /\ \A a \in AlertIds :
          alert'[a] = IF q.action \in AlertActions /\ a \in Matched(q)
                      THEN [alert[a] EXCEPT !.is_resolved = ResolvedOf(q.action)]
                      ELSE alert[a]

\* both requests are done, one mark_as_active and one mark_as_inactive, and
\* they matched the same Devices
RacedOverSameDevices ==
    /\ \A r \in Requests : inflight[r].pc = "done"
    /\ {inflight[r].action : r \in Requests} = DeviceActions
    /\ \A r1, r2 \in Requests : Matched(inflight[r1]) = Matched(inflight[r2])

\* C11: the step that runs a bulk action's update writes all of its matched
\* rows at once and nothing else, and returns their number; once a
\* mark_as_active and a mark_as_inactive over the same Devices have both
\* completed, every one of those Devices has the state of the last writer.
C11_AtomicBulkUpdate ==
    [][/\ \A r \in Requests :
             (inflight[r].pc = "received" /\ inflight'[r].pc = "done")
                => AppliedWhole(r)
       /\ RacedOverSameDevices' =>
             \A r \in Requests : \A d \in Matched(inflight[r])' :
                 device'[d].state = StateOf(last'.action)]_vars

\* both requests were in flight together over two or more Devices, and both
\* have completed
C11_Witness ==
    /\ RacedOverSameDevices
    /\ \A r \in Requests :
          /\ Cardinality(Matched(inflight[r])) >= 2
          /\ inflight[r].count = Cardinality(Matched(inflight[r]))
    /\ \E v \in STATES : \A d \in Matched(inflight["r1"]) : device[d].state = v

====
